---- MODULE Spec2Model ----
(***************************************************************************)
(* Pattern correlation of two gridded fields (src/pattern_correlation.py). *)
(*                                                                         *)
(* Numbers.  A numpy float is modelled as an exact number or NaN:          *)
(*   [nan, n, d]        NaN, or the rational n/d (d > 0, lowest terms);    *)
(*   [nan, sgn, n, d]   NaN, or the real sgn * sqrt(n/d), the form of the  *)
(*                      standard deviations and of the returned value.     *)
(* Rounding, overflow and infinities are not modelled: the arithmetic is   *)
(* the exact arithmetic the floating-point code approximates.              *)
(* An array is [shape, data]: its shape tuple and its cells in C order,    *)
(* which is the order numpy's flatten() produces.                          *)
(***************************************************************************)
EXTENDS Integers, Sequences, FiniteSets, TLC

VARIABLES pc, pattern1, pattern2, weights, centered, outcome,
          data1, data2, lat_dim, area_weighted, frames, fs, main

vars == <<pc, pattern1, pattern2, weights, centered, outcome,
          data1, data2, lat_dim, area_weighted, frames, fs, main>>

scriptVars == <<fs, main>>

\* what the steps of the script leave alone
callVars == <<pc, pattern1, pattern2, weights, centered, outcome,
              data1, data2, lat_dim, area_weighted, frames>>

\* what the steps of a concurrent caller leave alone, the arrays apart
callerVars == <<pc, centered, outcome, data1, data2, lat_dim, area_weighted,
                fs, main>>

fieldVars == <<data1, data2, lat_dim, area_weighted>>

\* ------------------------------------------------------------- bounds ----
MaxCells == 2      \* most cells of an array
MaxVal == 1        \* pattern cells are NaN or an integer in -MaxVal..MaxVal
MaxWeight == 1     \* weight cells are integers in 0..MaxWeight
MaxUniform == 2    \* uniform weight arrays have a value in 0..MaxUniform

\* ------------------------------------------------------------ numbers ----
Abs(i) == IF i < 0 THEN -i ELSE i

Sign(i) == IF i < 0 THEN -1 ELSE IF i = 0 THEN 0 ELSE 1

RECURSIVE Gcd(_, _)
Gcd(a, b) == IF b = 0 THEN a ELSE Gcd(b, a % b)

NaN == [nan |-> TRUE, n |-> 0, d |-> 1]

\* the rational a/b in lowest terms, b > 0
Rat(a, b) ==
    IF b = 1 \/ a = 0 THEN [nan |-> FALSE, n |-> a, d |-> 1]
    ELSE LET g == Gcd(Abs(a), b)
         IN  [nan |-> FALSE, n |-> a \div g, d |-> b \div g]

Num(i) == Rat(i, 1)

IsNan(x) == x.nan

Add(x, y) ==
    IF x.nan \/ y.nan THEN NaN ELSE Rat(x.n * y.d + y.n * x.d, x.d * y.d)

Sub(x, y) ==
    IF x.nan \/ y.nan THEN NaN ELSE Rat(x.n * y.d - y.n * x.d, x.d * y.d)

Mul(x, y) ==
    IF x.nan \/ y.nan THEN NaN ELSE Rat(x.n * y.n, x.d * y.d)

\* x / y of numpy: 0/0 is NaN (a warning, no exception).  A nonzero value
\* over zero is an infinity, which no non-negative weight array produces.
Div(x, y) ==
    IF x.nan \/ y.nan THEN NaN
    ELSE IF y.n = 0 THEN NaN
    ELSE Rat(Sign(y.n) * x.n * y.d, x.d * Abs(y.n))

\* reals of the form sgn * sqrt(n/d)
RNaN == [nan |-> TRUE, sgn |-> 0, n |-> 0, d |-> 1]

Root(s, x) ==
    IF x.n = 0 THEN [nan |-> FALSE, sgn |-> 0, n |-> 0, d |-> 1]
    ELSE [nan |-> FALSE, sgn |-> s, n |-> x.n, d |-> x.d]

\* a rational as a real: x = sign(x) * sqrt(x^2)
AsReal(x) == IF x.nan THEN RNaN ELSE Root(Sign(x.n), Mul(x, x))

\* np.sqrt: NaN for NaN and for a negative argument
Sqrt(x) == IF x.nan \/ x.n < 0 THEN RNaN ELSE Root(1, x)

RMul(a, b) ==
    IF a.nan \/ b.nan THEN RNaN
    ELSE Root(a.sgn * b.sgn, Rat(a.n * b.n, a.d * b.d))

RDiv(a, b) ==
    IF a.nan \/ b.nan THEN RNaN
    ELSE IF b.sgn = 0 THEN RNaN
    ELSE Root(a.sgn * b.sgn, Rat(a.n * b.d, a.d * b.n))

\* x == 0 of IEEE floats: FALSE for NaN
RIsZero(a) == ~a.nan /\ a.sgn = 0

RECURSIVE DivPow10(_, _)
DivPow10(i, k) == IF k = 0 \/ i = 0 THEN i ELSE DivPow10(i \div 10, k - 1)

\* np.abs(a) < 1e-10 : FALSE for NaN; sqrt(n/d) < 10^-10 iff n * 10^20 < d
TolExp == 10
RAbsBelowTol(a) ==
    ~a.nan /\ (a.sgn = 0 \/ a.n <= DivPow10(a.d - 1, 2 * TolExp))

ROne == Root(1, Num(1))
RMinusOne == Root(-1, Num(1))

\* a real in [-1, 1]
RInUnit(a) == ~a.nan /\ a.n <= a.d

\* ------------------------------------------------------------- arrays ----
RECURSIVE Prod(_)
Prod(s) == IF s = <<>> THEN 1 ELSE Head(s) * Prod(Tail(s))

RECURSIVE Sum(_)
Sum(s) == IF s = <<>> THEN Num(0) ELSE Add(Head(s), Sum(Tail(s)))

Arr(shape, data) == [shape |-> shape, data |-> data]

\* weights=None
None == Arr(<<>>, <<>>)
IsNone(w) == w = None

Flatten(a) == a.data

\* elementwise operations on 1-D sequences of equal length
VMul(u, v) == [i \in 1..Len(u) |-> Mul(u[i], v[i])]
VSubScalar(u, m) == [i \in 1..Len(u) |-> Sub(u[i], m)]
VDivScalar(u, m) == [i \in 1..Len(u) |-> Div(u[i], m)]

\* mutant: only pattern1 is tested for NaN
ValidMask_FirstOnly(p1flat, p2flat) ==
    [i \in 1..Len(p1flat) |-> ~IsNan(p1flat[i])]

\* mutant: & in place of |
ValidMask_Either(p1flat, p2flat) ==
    [i \in 1..Len(p1flat) |-> ~(IsNan(p1flat[i]) /\ IsNan(p2flat[i]))]

\* ~(np.isnan(pattern1_flat) | np.isnan(pattern2_flat))
ValidMask(p1flat, p2flat) ==
    [i \in 1..Len(p1flat) |-> ~(IsNan(p1flat[i]) \/ IsNan(p2flat[i]))]

\* np.any(valid_mask)
NpAny(mask) == \E i \in 1..Len(mask) : mask[i]

\* flat[valid_mask] : the cells at the TRUE positions, in order
RECURSIVE ApplyMask(_, _)
ApplyMask(flat, mask) ==
    IF mask = <<>> THEN <<>>
    ELSE IF Head(mask) THEN <<Head(flat)>> \o ApplyMask(Tail(flat), Tail(mask))
    ELSE ApplyMask(Tail(flat), Tail(mask))

\* np.ones_like(pattern1_valid)
OnesLike(v) == [i \in 1..Len(v) |-> Num(1)]

\* mutant: the weights are used as given
NormalizeWeights_Raw(weights_valid) == weights_valid

\* weights_valid / np.sum(weights_valid)
NormalizeWeights(weights_valid) == VDivScalar(weights_valid, Sum(weights_valid))

\* np.sum(pattern_valid * weights_valid)
WeightedMean(pattern_valid, weights_valid) == Sum(VMul(pattern_valid, weights_valid))

\* mutant: the mean is never removed
Center_Skipped(pattern_valid, weights_valid, c) == pattern_valid

\* the centering of one pattern: pattern_valid - pattern_mean if centered
Center(pattern_valid, weights_valid, c) ==
    IF c THEN VSubScalar(pattern_valid, WeightedMean(pattern_valid, weights_valid))
    ELSE pattern_valid

\* mutant: the products are summed without their weights
Covariance_Unweighted(weights_valid, c1, c2) == Sum(VMul(c1, c2))

\* np.sum(weights_valid * pattern1_centered * pattern2_centered)
Covariance(weights_valid, c1, c2) == Sum(VMul(VMul(weights_valid, c1), c2))

\* mutant: the squares are summed without their weights
Std_Unweighted(weights_valid, c1) == Sqrt(Sum(VMul(c1, c1)))

\* np.sqrt(np.sum(weights_valid * pattern_centered**2))
Std(weights_valid, c1) == Sqrt(Sum(VMul(weights_valid, VMul(c1, c1))))

\* mutant: only std1 is tested
ZeroVariance_FirstOnly(std1, std2) == RIsZero(std1) \/ RAbsBelowTol(std1)

\* std1 == 0 or std2 == 0 or np.abs(std1) < 1e-10 or np.abs(std2) < 1e-10
ZeroVariance(std1, std2) ==
    RIsZero(std1) \/ RIsZero(std2) \/ RAbsBelowTol(std1) \/ RAbsBelowTol(std2)

\* ----------------------------------------------------------- outcomes ----
Raise(msg) == [kind |-> msg, value |-> RNaN]
Return(v) == [kind |-> "returned", value |-> v]

NoOutcome == Raise("none")
PatternShapeError == Raise("Patterns must have the same shape")
NoValidError == Raise("No valid (non-NaN) data points found in both patterns")
WeightShapeError == Raise("Weights must have the same shape as patterns")
ZeroVarianceError == Raise("One or both patterns have zero variance")
MissingDimensionError == Raise("Latitude dimension not found in data1")

\* the computation on the masked 1-D data and the normalised weights
CorrelateNormalized(pattern1_valid, pattern2_valid, weights_valid, c) ==
    LET pattern1_centered == Center(pattern1_valid, weights_valid, c)
        pattern2_centered == Center(pattern2_valid, weights_valid, c)
        covariance == Covariance(weights_valid, pattern1_centered, pattern2_centered)
        std1 == Std(weights_valid, pattern1_centered)
        std2 == Std(weights_valid, pattern2_centered)
    IN  IF ZeroVariance(std1, std2) THEN ZeroVarianceError
        ELSE Return(RDiv(AsReal(covariance), RMul(std1, std2)))

\* the computation on the masked 1-D data, from the normalisation on
Correlate(pattern1_valid, pattern2_valid, weights_masked, c) ==
    CorrelateNormalized(pattern1_valid, pattern2_valid,
                        NormalizeWeights(weights_masked), c)

\* mutant: the sizes are compared, not the shapes
WeightShapeOk_Size(w, p1) == Prod(w.shape) >= Prod(p1.shape)

\* weights.shape != pattern1.shape, negated
WeightShapeOk(w, p1) == w.shape = p1.shape

\* mutant: the weights' shape is checked before the valid positions are counted
CalculatePatternCorrelation_WeightsFirst(p1, p2, w, c) ==
    IF p1.shape # p2.shape THEN PatternShapeError
    ELSE IF ~IsNone(w) /\ ~WeightShapeOk(w, p1) THEN WeightShapeError
    ELSE
      LET valid_mask == ValidMask(Flatten(p1), Flatten(p2))
          pattern1_valid == ApplyMask(Flatten(p1), valid_mask)
          pattern2_valid == ApplyMask(Flatten(p2), valid_mask)
      IN  IF ~NpAny(valid_mask) THEN NoValidError
          ELSE Correlate(pattern1_valid, pattern2_valid,
                         IF IsNone(w) THEN OnesLike(pattern1_valid)
                         ELSE ApplyMask(Flatten(w), valid_mask), c)

\* calculate_pattern_correlation(pattern1, pattern2, weights, centered)
CalculatePatternCorrelation(p1, p2, w, c) ==
    IF p1.shape # p2.shape THEN PatternShapeError
    ELSE
      LET pattern1_flat == Flatten(p1)
          pattern2_flat == Flatten(p2)
          valid_mask == ValidMask(pattern1_flat, pattern2_flat)
          pattern1_valid == ApplyMask(pattern1_flat, valid_mask)
          pattern2_valid == ApplyMask(pattern2_flat, valid_mask)
      IN  IF ~NpAny(valid_mask) THEN NoValidError
          ELSE IF IsNone(w)
            THEN Correlate(pattern1_valid, pattern2_valid, OnesLike(pattern1_valid), c)
          ELSE IF ~WeightShapeOk(w, p1) THEN WeightShapeError
          ELSE Correlate(pattern1_valid, pattern2_valid,
                         ApplyMask(Flatten(w), valid_mask), c)

\* ------------------------------------------------------------ wrapper ----
\* An xr.DataArray is [dims, shape, data, coord]: the dimension names, the
\* sizes, the cells in C order and the coordinate (degrees) of its latitude
\* dimension.
Field(dims, shape, data, coord) ==
    [dims |-> dims, shape |-> shape, data |-> data, coord |-> coord]

NoField == Field(<<>>, <<>>, <<>>, <<>>)

\* DataArray.values
Values(f) == Arr(f.shape, f.data)

DimSet(f) == {f.dims[i] : i \in 1..Len(f.dims)}

\* the position of a dimension among a field's dimensions
DimIndex(f, name) == CHOOSE i \in 1..Len(f.dims) : f.dims[i] = name

\* data1[lat_dim].values
LatValues(f, name) == f.coord

\* np.cos(np.deg2rad(lat)) at the latitudes of the model's grids
CosDeg(lat) == IF lat = 0 THEN Num(1) ELSE Rat(1, 2)

\* the sequence s without its i-th element
Without(s, i) == SubSeq(s, 1, i - 1) \o SubSeq(s, i + 1, Len(s))

\* weight_array * xr.ones_like(data1): the dimensions of the product are
\* those of the left operand followed by the other dimensions of the right
\* one, and the cell at latitude index l holds the l-th weight
BroadcastWeights(w, f, name) ==
    LET rest == Without(f.shape, DimIndex(f, name))
    IN  Arr(<<Len(w)>> \o rest,
            [k \in 1..(Len(w) * Prod(rest)) |-> w[((k - 1) \div Prod(rest)) + 1]])

\* the weight array of the call: cos(latitude) broadcast, None without area weighting
WeightArray(f, name, area) ==
    IF area
    THEN LET lats == LatValues(f, name)
             w == [i \in 1..Len(lats) |-> CosDeg(lats[i])]
         IN  BroadcastWeights(w, f, name)
    ELSE None

\* mutant: the dimension is looked for whether or not weighting is requested
MissingDimension_Always(f1, name, area) == name \notin DimSet(f1)

\* area weighting was requested and data1 has no dimension of that name
MissingDimension(f1, name, area) == area /\ name \notin DimSet(f1)

\* calculate_spatial_correlation(data1, data2, lat_dim, lon_dim, area_weighted)
CalculateSpatialCorrelation(f1, f2, name, area) ==
    IF MissingDimension(f1, name, area) THEN MissingDimensionError
    ELSE CalculatePatternCorrelation(Values(f1), Values(f2),
                                     WeightArray(f1, name, area), TRUE)

\* ------------------------------------------------------------- inputs ----
\* The inputs are reduced by two symmetries of the function.  Negating both
\* patterns leaves every product it sums unchanged, so pattern1 is drawn from
\* the non-negative cells and pattern2 from both signs.  Permuting the
\* positions of pattern1, pattern2 and weights together permutes the terms of
\* every sum, so pattern1 is drawn with its cells in non-decreasing order (NaN
\* first) while pattern2 and weights take every arrangement.
Cells1 == {NaN} \cup {Num(i) : i \in 0..MaxVal}
Cells2 == {NaN} \cup {Num(i) : i \in (-MaxVal)..MaxVal}
WeightCells == {Num(i) : i \in 0..MaxWeight}

Shapes == {<<k>> : k \in 1..MaxCells}

ArraysOf(s, cells) == {Arr(s, d) : d \in [1..Prod(s) -> cells]}

Uniform(s, v) == Arr(s, [i \in 1..Prod(s) |-> Num(v)])

\* NaN sorts before the numbers of Cells1
SortKey(x) == IF x.nan THEN -1 ELSE x.n

Sorted(d) == \A i \in 1..(Len(d) - 1) : SortKey(d[i]) <= SortKey(d[i + 1])

Patterns1 == {a \in UNION {ArraysOf(s, Cells1) : s \in Shapes} : Sorted(a.data)}
Patterns2 == UNION {ArraysOf(s, Cells2) : s \in Shapes}

\* weight arguments for patterns of shape s: none, every array of that shape,
\* the uniform arrays of that shape, and an array of each other shape (the
\* function reads only the shape of such an array)
WeightsFor(s) ==
    {None} \cup ArraysOf(s, WeightCells)
           \cup {Uniform(s, v) : v \in 0..MaxUniform}
           \cup {Uniform(t, 1) : t \in Shapes \ {s}}

\* the names a latitude dimension goes by; a field whose latitude dimension
\* has the other name lacks the dimension the call asks for
LatNames == {"lat", "latitude"}

FieldShapes ==
    {<<k>> : k \in 1..MaxCells}
    \cup UNION {{<<r, c>> : c \in 1..(MaxCells \div r)} : r \in 1..MaxCells}

DimsOf(s) ==
    IF Len(s) = 1 THEN {<<a>> : a \in LatNames}
    ELSE {<<a, "lon">> : a \in LatNames} \cup {<<"lon", a>> : a \in LatNames}

\* the size of a field's latitude dimension
LatSize(dims, shape) ==
    shape[CHOOSE i \in 1..Len(dims) : dims[i] \in LatNames]

\* the latitude grid of n rows: 0 and 60 degrees alternating
Grid(n) == [i \in 1..n |-> IF i % 2 = 1 THEN 0 ELSE 60]

FieldsOf(s) ==
    {Field(dims, s, d, Grid(LatSize(dims, s))) :
        dims \in DimsOf(s), d \in [1..Prod(s) -> Cells1]}

Reversed(s) == [i \in 1..Len(s) |-> s[Len(s) + 1 - i]]

Renamed(dims) ==
    [i \in 1..Len(dims) |->
        IF dims[i] = "lat" THEN "latitude"
        ELSE IF dims[i] = "latitude" THEN "lat" ELSE dims[i]]

\* the second field of a call: any cells, the shape of the first field or
\* that shape reversed, the dimensions of the first field or its latitude
\* dimension under the other name, and the same grid
PartnersOf(f) ==
    {Field(dims, s, d, f.coord) :
        dims \in {f.dims, Renamed(f.dims)},
        s \in {f.shape, Reversed(f.shape)},
        d \in [1..Prod(f.shape) -> Cells1]}

\* ------------------------------------------------------ specification ----
\* no caller but the one of the specification
NoFrames == <<>>

\* no script is run
NoFiles == <<>>
NoMain == <<>>

Init ==
    /\ data1 = NoField /\ data2 = NoField
    /\ lat_dim = "lat" /\ area_weighted = FALSE
    /\ pc = "call"
    /\ pattern1 \in Patterns1
    /\ pattern2 \in Patterns2
    /\ weights \in WeightsFor(pattern1.shape)
    /\ centered \in BOOLEAN
    /\ outcome = NoOutcome
    /\ frames = NoFrames
    /\ fs = NoFiles /\ main = NoMain

\* corr = calculate_pattern_correlation(pattern1, pattern2, weights, centered)
Call ==
    /\ pc = "call"
    /\ outcome' = CalculatePatternCorrelation(pattern1, pattern2, weights, centered)
    /\ pc' = "done"
    /\ UNCHANGED <<pattern1, pattern2, weights, centered>>
    /\ UNCHANGED fieldVars
    /\ UNCHANGED frames
    /\ UNCHANGED scriptVars

Next == Call

Spec == Init /\ [][Next]_vars

\* the calls of the wrapper
InitSpatial ==
    /\ pc = "call"
    /\ data1 \in UNION {FieldsOf(s) : s \in FieldShapes}
    /\ data2 \in PartnersOf(data1)
    /\ lat_dim \in LatNames
    /\ area_weighted \in BOOLEAN
    /\ pattern1 = None /\ pattern2 = None /\ weights = None
    /\ centered = TRUE
    /\ outcome = NoOutcome
    /\ frames = NoFrames
    /\ fs = NoFiles /\ main = NoMain

\* corr = calculate_spatial_correlation(data1, data2, lat_dim, lon_dim,
\* area_weighted); pattern1, pattern2 and weights record the arguments of
\* the call of calculate_pattern_correlation it makes, if it makes one
CallSpatial ==
    /\ pc = "call"
    /\ outcome' = CalculateSpatialCorrelation(data1, data2, lat_dim, area_weighted)
    /\ IF MissingDimension(data1, lat_dim, area_weighted)
       THEN UNCHANGED <<pattern1, pattern2, weights>>
       ELSE /\ pattern1' = Values(data1)
            /\ pattern2' = Values(data2)
            /\ weights' = WeightArray(data1, lat_dim, area_weighted)
    /\ pc' = "done"
    /\ UNCHANGED <<centered, data1, data2, lat_dim, area_weighted>>
    /\ UNCHANGED frames
    /\ UNCHANGED scriptVars

NextSpatial == CallSpatial

SpecSpatial == InitSpatial /\ [][NextSpatial]_vars

\* --------------------------------------------------- concurrent callers ----
\* Two callers run calculate_pattern_correlation on the same three arrays.
\* A caller's frame holds its position in the function and its local names;
\* frames[c].pc is the block of the function it executes next.
Callers == {1, 2}

Frame(at, valid_mask, pattern1_valid, pattern2_valid, weights_valid, result) ==
    [pc |-> at, valid_mask |-> valid_mask,
     pattern1_valid |-> pattern1_valid, pattern2_valid |-> pattern2_valid,
     weights_valid |-> weights_valid, outcome |-> result]

Raised(error) == Frame("done", <<>>, <<>>, <<>>, <<>>, error)

\* the elementwise negation -P (the negation of NaN is NaN)
Neg(p) == Arr(p.shape, [i \in 1..Len(p.data) |-> Sub(Num(0), p.data[i])])

\* the second pattern of a concurrent call
ConcurrentPartners(p) ==
    {p, Neg(p), Arr(p.shape, Reversed(p.data))}
    \cup {Uniform(t, 1) : t \in Shapes \ {p.shape}}

InitConcurrent ==
    /\ data1 = NoField /\ data2 = NoField
    /\ lat_dim = "lat" /\ area_weighted = FALSE
    /\ pc = "concurrent"
    /\ pattern1 \in Patterns1
    /\ pattern2 \in ConcurrentPartners(pattern1)
    /\ weights \in WeightsFor(pattern1.shape)
    /\ centered \in BOOLEAN
    /\ outcome = NoOutcome
    /\ frames = [c \in Callers |-> Frame("enter", <<>>, <<>>, <<>>, <<>>, NoOutcome)]
    /\ fs = NoFiles /\ main = NoMain

\* lines 64-95: the conversions, the shape check, flatten() (a copy of each
\* pattern), the mask, the Empty Input check and the masked copies
Enter(c) ==
    /\ frames[c].pc = "enter"
    /\ frames' = [frames EXCEPT ![c] =
         IF pattern1.shape # pattern2.shape THEN Raised(PatternShapeError)
         ELSE LET valid_mask == ValidMask(Flatten(pattern1), Flatten(pattern2))
              IN  IF ~NpAny(valid_mask) THEN Raised(NoValidError)
                  ELSE Frame("weights", valid_mask,
                             ApplyMask(Flatten(pattern1), valid_mask),
                             ApplyMask(Flatten(pattern2), valid_mask),
                             <<>>, NoOutcome)]
    /\ UNCHANGED <<pattern1, pattern2, weights>>
    /\ UNCHANGED callerVars

\* lines 97-108: the weights of the valid positions: ones, or a masked copy
\* of the flattened copy of weights
TakeWeights(c) ==
    /\ frames[c].pc = "weights"
    /\ LET f == frames[c]
       IN  frames' = [frames EXCEPT ![c] =
             IF IsNone(weights)
               THEN [f EXCEPT !.pc = "normalize",
                              !.weights_valid = OnesLike(f.pattern1_valid)]
             ELSE IF ~WeightShapeOk(weights, pattern1) THEN Raised(WeightShapeError)
             ELSE [f EXCEPT !.pc = "normalize",
                            !.weights_valid = ApplyMask(Flatten(weights), f.valid_mask)]]
    /\ UNCHANGED <<pattern1, pattern2, weights>>
    /\ UNCHANGED callerVars

\* mutant: the caller's weights are normalised in place
AfterNormalize_InPlace(w) ==
    IF IsNone(w) THEN w ELSE Arr(w.shape, NormalizeWeights(w.data))

\* line 111 binds the quotient, a new array, to the local name weights_valid:
\* the caller's weights after the statement
AfterNormalize(w) == w

\* line 111
Normalize(c) ==
    /\ frames[c].pc = "normalize"
    /\ frames' = [frames EXCEPT ![c].pc = "correlate",
                                ![c].weights_valid = NormalizeWeights(@)]
    /\ weights' = AfterNormalize(weights)
    /\ UNCHANGED <<pattern1, pattern2>>
    /\ UNCHANGED callerVars

\* lines 113-136: centring, covariance, standard deviations, the Degenerate
\* Variance check and the return
Finish(c) ==
    /\ frames[c].pc = "correlate"
    /\ LET f == frames[c]
       IN  frames' = [frames EXCEPT ![c] =
             [f EXCEPT !.pc = "done",
                       !.outcome = CorrelateNormalized(f.pattern1_valid, f.pattern2_valid,
                                                       f.weights_valid, centered)]]
    /\ UNCHANGED <<pattern1, pattern2, weights>>
    /\ UNCHANGED callerVars

NextConcurrent ==
    \E c \in Callers : Enter(c) \/ TakeWeights(c) \/ Normalize(c) \/ Finish(c)

SpecConcurrent == InitConcurrent /\ [][NextConcurrent]_vars

\* ------------------------------------------- the analysis script's main ----
\* scripts/analyze_pattern_correlation.py.  fs is the file system the script
\* meets: the two input files, what stands at data/results, and whether the
\* script has written the figure.  A file is [exists, opens, vars]: whether
\* the path exists, whether xr.open_dataset reads it, and its variables.
File(exists, opens, variables) ==
    [exists |-> exists, opens |-> opens, vars |-> variables]

NoVars == [n \in {} |-> NoField]

\* the names load_sst_data tries, in its order
Candidates == <<"sst", "tos", "SST", "TOS">>

\* the variable names of the input files
VarNames == {"sst", "tos", "SST", "TOS", "temp"}

\* a field with a time dimension of size 1 over two latitudes
TimeLatField == Field(<<"time", "lat">>, <<1, 2>>, <<Num(0), Num(1)>>, Grid(2))

\* a field whose latitude dimension is named latitude
LatitudeField == Field(<<"latitude">>, <<2>>, <<Num(0), Num(1)>>, Grid(2))

SampleFields == {TimeLatField, LatitudeField}

\* the input files: missing, unreadable, or a dataset of up to two variables
Files ==
    {File(FALSE, FALSE, NoVars), File(TRUE, FALSE, NoVars)}
    \cup {File(TRUE, TRUE, v) :
            v \in UNION {[S -> SampleFields] :
                           S \in {T \in SUBSET VarNames : Cardinality(T) <= 2}}}

\* what stands at data/results before the run
ResultsStates == {"absent", "dir", "file"}

Main(at, obs_data, model_data, correlation, steps, result) ==
    [pc |-> at, obs_data |-> obs_data, model_data |-> model_data,
     correlation |-> correlation, steps |-> steps, result |-> result]

InitMain ==
    /\ data1 = NoField /\ data2 = NoField
    /\ lat_dim = "lat" /\ area_weighted = TRUE
    /\ pc = "main"
    /\ pattern1 = None /\ pattern2 = None /\ weights = None
    /\ centered = TRUE
    /\ outcome = NoOutcome
    /\ frames = NoFrames
    /\ fs \in [obs_file : Files, model_file : Files, results : ResultsStates,
                created : {FALSE}, figure : {FALSE}]
    /\ main = Main("check_obs", NoField, NoField, NoOutcome, <<>>, "running")

\* the step is logged and main goes on, returns or raises
Goes(step, at) ==
    [main EXCEPT !.pc = at, !.steps = Append(@, step)]

Leaves(step, result) ==
    [main EXCEPT !.pc = "exit", !.steps = Append(@, step), !.result = result]

\* lines 202-206
CheckObs ==
    /\ main.pc = "check_obs"
    /\ main' = IF ~fs.obs_file.exists THEN Leaves("check_obs", "return 1")
               ELSE Goes("check_obs", "check_model")
    /\ UNCHANGED fs
    /\ UNCHANGED callVars

\* lines 208-212
CheckModel ==
    /\ main.pc = "check_model"
    /\ main' = IF ~fs.model_file.exists THEN Leaves("check_model", "return 1")
               ELSE Goes("check_model", "load")
    /\ UNCHANGED fs
    /\ UNCHANGED callVars

\* the positions of the candidates that name a variable of the dataset
Matches(ds) == {i \in 1..Len(Candidates) : Candidates[i] \in DOMAIN ds.vars}

\* mutant: the loop does not stop at the first match
FindVariable_Last(ds) ==
    Candidates[CHOOSE i \in Matches(ds) : \A j \in Matches(ds) : j <= i]

\* lines 52-57 and 59-64: the first candidate that is in the dataset
FindVariable(ds) ==
    Candidates[CHOOSE i \in Matches(ds) : \A j \in Matches(ds) : i <= j]

RECURSIVE SqueezeSeq(_, _)
SqueezeSeq(s, shape) ==
    IF s = <<>> THEN <<>>
    ELSE (IF Head(shape) = 1 THEN <<>> ELSE <<Head(s)>>)
         \o SqueezeSeq(Tail(s), Tail(shape))

\* DataArray.squeeze(): the dimensions of size 1 are dropped
Squeeze(f) ==
    Field(SqueezeSeq(f.dims, f.shape), SqueezeSeq(f.shape, f.shape), f.data, f.coord)

\* load_sst_data raises: a file does not open (lines 45, 48) or holds none
\* of the candidates (lines 57, 64)
LoadRaises(obs, model) ==
    \/ ~obs.opens \/ ~model.opens
    \/ Matches(obs) = {} \/ Matches(model) = {}

\* lines 220-224 with load_sst_data, lines 44-70
Load ==
    /\ main.pc = "load"
    /\ main' = IF LoadRaises(fs.obs_file, fs.model_file) THEN Leaves("load", "return 1")
               ELSE [Goes("load", "correlate") EXCEPT
                       !.obs_data = Squeeze(fs.obs_file.vars[FindVariable(fs.obs_file)]),
                       !.model_data = Squeeze(fs.model_file.vars[FindVariable(fs.model_file)])]
    /\ UNCHANGED fs
    /\ UNCHANGED callVars

\* lines 232-240
ComputeCorrelation ==
    /\ main.pc = "correlate"
    /\ LET correlation == CalculateSpatialCorrelation(main.obs_data, main.model_data,
                                                      "lat", TRUE)
       IN  main' = IF correlation.kind # "returned" THEN Leaves("correlate", "return 1")
                   ELSE [Goes("correlate", "mkdir") EXCEPT !.correlation = correlation]
    /\ UNCHANGED fs
    /\ UNCHANGED callVars

\* line 248, outside every try: Path.mkdir(exist_ok=True) makes the
\* directory, accepts one that exists and raises FileExistsError over a file
MakeResultsDir ==
    /\ main.pc = "mkdir"
    /\ IF fs.results = "file"
         THEN main' = Leaves("mkdir", "raised") /\ UNCHANGED fs
       ELSE /\ main' = Goes("mkdir", "plot")
            /\ fs' = [fs EXCEPT !.results = "dir", !.created = (fs.results = "absent")]
    /\ UNCHANGED callVars

\* lines 252-261: plot_sst_patterns raises before it saves the figure, or
\* saves it; the try block then completes or raises after the figure is saved
Plot ==
    /\ main.pc = "plot"
    /\ \E saved, completed \in BOOLEAN :
          /\ completed => saved
          /\ main' = Leaves("plot", IF completed THEN "return 0" ELSE "return 1")
          /\ fs' = [fs EXCEPT !.figure = saved]
    /\ UNCHANGED callVars

NextMain ==
    CheckObs \/ CheckModel \/ Load \/ ComputeCorrelation \/ MakeResultsDir \/ Plot

SpecMain == InitMain /\ [][NextMain]_vars

\* ------------------------------------------------------------- claims ----
Done == pc = "done"
SameShape == pattern1.shape = pattern2.shape
WeightsFit == IsNone(weights) \/ weights.shape = pattern1.shape
Returned == outcome.kind = "returned"

\* the positions that are non-NaN in both patterns (patterns of equal shape)
ValidPos == {i \in 1..Len(pattern1.data) :
                ~pattern1.data[i].nan /\ ~pattern2.data[i].nan}

\* the weight the call gives position i before normalisation
WeightAt(i) == IF IsNone(weights) THEN Num(1) ELSE weights.data[i]

\* the weights of the valid positions are all zero
ZeroWeights == \A i \in ValidPos : WeightAt(i).n = 0

\* the calls that divide the weights by a zero sum
ZeroSum == ValidPos # {} /\ ZeroWeights

\* C1: every call either raises or returns a real number r, -1 <= r <= 1,
\* never NaN, also when the weights of the valid positions are all zero.
C1_RealOrFailure ==
    Done /\ Returned => RInUnit(outcome.value)

\* the calls that return NaN are exactly those whose weights vanish on the
\* valid positions and that pass the checks before the normalisation
C1_NanOnlyFromZeroWeights ==
    Done /\ Returned /\ ~RInUnit(outcome.value) =>
        /\ outcome.value.nan
        /\ SameShape /\ WeightsFit /\ ZeroSum

\* the non-NaN cells of a pattern
RealCells(p) == {p.data[i] : i \in {j \in 1..Len(p.data) : ~p.data[j].nan}}

\* every cell of the pattern holds the same number
Constant(p) == Len(p.data) >= 1 /\ \E v \in RealCells(p) : \A i \in 1..Len(p.data) : p.data[i] = v

AllNan(p) == \A i \in 1..Len(p.data) : p.data[i].nan

DefaultCall == Done /\ IsNone(weights) /\ centered

UniformWeights(v) == ~IsNone(weights) /\ weights = Uniform(pattern1.shape, v)

\* C4 as stated: a uniform weight array of the patterns' shape gives the
\* outcome of weights=None, for every pattern pair of equal shape and either
\* value of centered.
C4_UniformIsNone ==
    Done /\ SameShape /\ (\E v \in 0..MaxUniform : UniformWeights(v)) =>
        outcome = CalculatePatternCorrelation(pattern1, pattern2, None, centered)

\* C4 amended: a uniform weight array of the patterns' shape whose value is
\* positive gives the outcome of weights=None, for every pattern pair of equal
\* shape and either value of centered.
C4_PositiveUniformIsNone ==
    Done /\ SameShape /\ (\E v \in 1..MaxUniform : UniformWeights(v)) =>
        outcome = CalculatePatternCorrelation(pattern1, pattern2, None, centered)

C4_Witness ==
    /\ Done /\ SameShape /\ UniformWeights(2) /\ Returned
    /\ outcome.value \notin {ROne, RMinusOne, AsReal(Num(0))}

\* the cells of data at the positions where neither a nor b is NaN
RECURSIVE DeleteMissing(_, _, _)
DeleteMissing(data, a, b) ==
    IF data = <<>> THEN <<>>
    ELSE (IF a[1].nan \/ b[1].nan THEN <<>> ELSE <<data[1]>>)
         \o DeleteMissing(Tail(data), Tail(a), Tail(b))

\* an array as the 1-D array of its cells at the positions valid in both
\* patterns
Overlap(a) ==
    LET kept == DeleteMissing(a.data, pattern1.data, pattern2.data)
    IN  Arr(<<Len(kept)>>, kept)

\* C5: for equal-shaped patterns and a weight array of their shape (or none)
\* the outcome is that of the call on the 1-D arrays left after deleting
\* every position where either pattern is NaN, from the patterns and from the
\* weights.
C5_OnlyOverlapCounts ==
    Done /\ SameShape /\ WeightsFit =>
        outcome = CalculatePatternCorrelation(
                      Overlap(pattern1), Overlap(pattern2),
                      IF IsNone(weights) THEN None ELSE Overlap(weights), centered)

C5_Witness ==
    /\ Done /\ SameShape /\ ~IsNone(weights) /\ WeightsFit /\ Returned
    /\ ValidPos # {}
    /\ \E i \in 1..Len(pattern1.data) : i \notin ValidPos /\ weights.data[i].n > 0
    /\ ~outcome.value.nan

WeightsMisfit == ~IsNone(weights) /\ weights.shape # pattern1.shape

\* C6 as stated: a weight array whose shape differs from the patterns' shape
\* always fails with the weight Shape Mismatch, whatever the equal-shaped
\* patterns hold, all-NaN patterns included.
C6_MisfitAlwaysShapeError ==
    Done /\ SameShape /\ WeightsMisfit => outcome = WeightShapeError

\* C6 amended: a weight array whose shape differs from the patterns' shape
\* fails with the weight Shape Mismatch whenever some position is non-NaN in
\* both patterns; when no position is, the call fails with Empty Input.
C6_MisfitShapeErrorAfterEmpty ==
    Done /\ SameShape /\ WeightsMisfit =>
        outcome = IF ValidPos = {} THEN NoValidError ELSE WeightShapeError

C6_Witness ==
    /\ Done /\ SameShape /\ WeightsMisfit /\ outcome = WeightShapeError
    /\ \E i \in 1..Len(pattern1.data) : pattern1.data[i].nan

\* C7 as stated: an all-NaN pattern paired with any other pattern, and any
\* pair with no position non-NaN in both, fails with Empty Input, whatever
\* the weights and centered are.
C7_NoOverlapIsEmptyInput ==
    Done /\ (AllNan(pattern1) \/ AllNan(pattern2) \/ (SameShape /\ ValidPos = {})) =>
        outcome = NoValidError

\* C7 amended: a pair of patterns of the same shape with no position non-NaN
\* in both (an all-NaN pattern and any other pattern of its shape) fails with
\* Empty Input, whatever the weights and centered are.
C7_SameShapeNoOverlapIsEmptyInput ==
    Done /\ SameShape /\ ValidPos = {} => outcome = NoValidError

C7_Witness ==
    /\ Done /\ SameShape /\ ValidPos = {} /\ outcome = NoValidError
    /\ Len(pattern1.data) = MaxCells /\ ~AllNan(pattern1) /\ ~AllNan(pattern2)
    /\ WeightsMisfit

SinglePoint ==
    /\ pattern1.shape = <<1>> /\ pattern2.shape = <<1>>
    /\ ~pattern1.data[1].nan /\ ~pattern2.data[1].nan

Correlated == pattern1 # None

\* C10: with area_weighted=True the wrapper fails with Missing Dimension
\* whenever lat_dim is absent from data1, from data2 or from both, before any
\* correlation is computed.
C10_MissingDimensionInEither ==
    Done /\ area_weighted /\ (lat_dim \notin DimSet(data1) \/ lat_dim \notin DimSet(data2)) =>
        outcome = MissingDimensionError /\ ~Correlated

\* with area_weighted=True the wrapper fails with Missing Dimension, before
\* any correlation is computed, exactly when lat_dim is absent from data1
C10_MissingDimensionInFirst ==
    Done /\ area_weighted =>
        (lat_dim \notin DimSet(data1)) = (outcome = MissingDimensionError /\ ~Correlated)

\* the latitude index of the k-th cell (C order) of a field
LatIndexOf(f, name, k) ==
    LET p == DimIndex(f, name)
        stride == Prod(SubSeq(f.shape, p + 1, Len(f.shape)))
    IN  (((k - 1) \div stride) % f.shape[p]) + 1

\* the weight array of data1's shape that holds, at each cell, the cosine of
\* the cell's latitude
CosineWeights(f, name) ==
    Arr(f.shape, [k \in 1..Prod(f.shape) |-> CosDeg(f.coord[LatIndexOf(f, name, k)])])

Weighted == Done /\ area_weighted /\ lat_dim \in DimSet(data1)

\* C11: with area weighting, wherever the latitude dimension stands among
\* data1's dimensions, the weight array handed to
\* calculate_pattern_correlation has data1's shape and holds cos(latitude) of
\* each cell's latitude index, and the weight shape check never fails.
C11_WeightsMatchField ==
    Weighted =>
        /\ weights = CosineWeights(data1, lat_dim)
        /\ outcome # WeightShapeError

\* what the code does achieve: the claim for the fields whose first dimension
\* is the latitude
C11_WeightsMatchLatFirstField ==
    Weighted /\ data1.dims[1] = lat_dim =>
        /\ weights = CosineWeights(data1, lat_dim)
        /\ outcome # WeightShapeError

\* C12: without area weighting the wrapper's outcome is that of
\* calculate_pattern_correlation(data1, data2, weights=None, centered=True),
\* and it never raises Missing Dimension, also when neither field has the
\* latitude dimension.
C12_UnweightedDelegates ==
    Done /\ ~area_weighted =>
        /\ outcome = CalculatePatternCorrelation(Values(data1), Values(data2), None, TRUE)
        /\ outcome # MissingDimensionError
        /\ IsNone(weights) /\ pattern1 = Values(data1) /\ pattern2 = Values(data2)

C12_Witness ==
    /\ Done /\ ~area_weighted
    /\ lat_dim \notin DimSet(data1) /\ lat_dim \notin DimSet(data2)
    /\ Returned /\ ~outcome.value.nan
    /\ Len(data1.shape) = 2

\* the weighted standard deviation of pattern p over the valid positions, for
\* patterns of equal shape with a valid position and fitting weights
WeightedStd(p) ==
    LET valid == [i \in 1..Len(pattern1.data) |-> i \in ValidPos]
        w == NormalizeWeights(ApplyMask([i \in 1..Len(p.data) |-> WeightAt(i)], valid))
        v == ApplyMask(p.data, valid)
    IN  Std(w, Center(v, w, centered))

BelowTolerance(s) == RIsZero(s) \/ RAbsBelowTol(s)

\* C14: the failures come in a fixed order: the pattern Shape Mismatch first,
\* whatever the NaN content and the weights; otherwise Empty Input if no
\* position is valid in both patterns; otherwise the weight Shape Mismatch;
\* otherwise Degenerate Variance if a weighted standard deviation is zero or
\* below 1e-10; a value is returned only if none of the four holds.
C14_FailureOrder ==
    Done =>
        IF ~SameShape THEN outcome = PatternShapeError
        ELSE IF ValidPos = {} THEN outcome = NoValidError
        ELSE IF WeightsMisfit THEN outcome = WeightShapeError
        ELSE IF BelowTolerance(WeightedStd(pattern1)) \/ BelowTolerance(WeightedStd(pattern2))
          THEN outcome = ZeroVarianceError
        ELSE Returned

\* no position is valid, the weights misfit, and Empty Input is the failure
C14_Witness ==
    /\ Done /\ SameShape /\ Len(pattern1.data) = MaxCells
    /\ ValidPos = {} /\ WeightsMisfit
    /\ outcome = NoValidError

\* the patterns' shapes differ, no cell holds a number, the weights misfit
\* pattern1, and the pattern Shape Mismatch is the failure
C14_WitnessShapeFirst ==
    /\ Done /\ ~SameShape /\ AllNan(pattern1) /\ AllNan(pattern2)
    /\ ~IsNone(weights) /\ weights.shape # pattern1.shape
    /\ outcome = PatternShapeError

Finished(c) == frames[c].pc = "done"

\* C13: calculate_pattern_correlation is pure: no step of a call, successful
\* or failing, changes a cell of the caller's pattern1, pattern2 or weights,
\* and a call's outcome is the function of its arguments, so that callers
\* with equal arguments get equal outcomes however their steps interleave.
C13_Pure ==
    /\ [][pattern1' = pattern1 /\ pattern2' = pattern2 /\ weights' = weights]_vars
    /\ [](\A c \in Callers :
            Finished(c) =>
              frames[c].outcome =
                CalculatePatternCorrelation(pattern1, pattern2, weights, centered))
    /\ [](\A c, d \in Callers :
            Finished(c) /\ Finished(d) => frames[c].outcome = frames[d].outcome)

\* one caller has returned a number while the other one is past its Empty
\* Input check and has not normalised its weights yet
C13_Witness ==
    /\ pc = "concurrent"
    /\ \E c, d \in Callers :
          /\ Finished(c) /\ frames[c].outcome.kind = "returned"
          /\ ~frames[c].outcome.value.nan
          /\ frames[d].pc \in {"weights", "normalize"}
    /\ ~IsNone(weights)

\* both callers have failed with the same error
C13_WitnessFailure ==
    /\ pc = "concurrent"
    /\ \A c \in Callers : Finished(c) /\ frames[c].outcome = ZeroVarianceError

\* the steps of main in the order of the claim
Order == <<"check_obs", "check_model", "load", "correlate", "mkdir", "plot">>

Prefix(n) == SubSeq(Order, 1, n)

Exited == main.pc = "exit"

\* the candidate names in the order of the claim
ClaimedOrder == <<"sst", "tos", "SST", "TOS">>

NoCandidate(ds) ==
    \A i \in 1..Len(ClaimedOrder) : ClaimedOrder[i] \notin DOMAIN ds.vars

\* field f is the squeezed variable of the first candidate the dataset has
FirstMatch(ds, f) ==
    \E i \in 1..Len(ClaimedOrder) :
        /\ ClaimedOrder[i] \in DOMAIN ds.vars
        /\ \A j \in 1..(i - 1) : ClaimedOrder[j] \notin DOMAIN ds.vars
        /\ f = Squeeze(ds.vars[ClaimedOrder[i]])

LoadFailure ==
    \/ ~fs.obs_file.opens \/ ~fs.model_file.opens
    \/ NoCandidate(fs.obs_file) \/ NoCandidate(fs.model_file)

\* the correlation of the loaded fields is not a value
CorrelationFailure ==
    \A f, g \in {Squeeze(x) : x \in SampleFields} :
        FirstMatch(fs.obs_file, f) /\ FirstMatch(fs.model_file, g) =>
            CalculateSpatialCorrelation(f, g, "lat", TRUE).kind # "returned"

\* C15: main runs its steps in the order check observation file, check model
\* file, load, correlate, make the results directory, plot; the first failing
\* step ends it and no later step runs; a missing input file, a load failure
\* (no candidate variable included, the first of sst, tos, SST, TOS that the
\* dataset has being the one used), a correlation failure and a plotting
\* failure make it return 1; it returns 0 exactly when every step succeeded;
\* the results directory is made and the figure written only after the
\* correlation was computed.
C15_StepsInOrder ==
    pc = "main" =>
      /\ \E n \in 0..Len(Order) : main.steps = Prefix(n)
      /\ fs.created \/ fs.figure =>
            Len(main.steps) > 4 /\ main.correlation.kind = "returned"
      /\ Len(main.steps) > 3 \/ main.pc = "correlate" =>
            /\ FirstMatch(fs.obs_file, main.obs_data)
            /\ FirstMatch(fs.model_file, main.model_data)
      /\ Exited =>
            IF ~fs.obs_file.exists
              THEN main.result = "return 1" /\ main.steps = Prefix(1)
            ELSE IF ~fs.model_file.exists
              THEN main.result = "return 1" /\ main.steps = Prefix(2)
            ELSE IF LoadFailure
              THEN main.result = "return 1" /\ main.steps = Prefix(3)
            ELSE IF CorrelationFailure
              THEN main.result = "return 1" /\ main.steps = Prefix(4)
            ELSE IF fs.results = "file"
              THEN main.result # "return 0" /\ main.steps = Prefix(5)
            ELSE /\ main.steps = Prefix(6)
                 /\ main.result \in {"return 0", "return 1"}
                 /\ main.result = "return 0" => fs.figure

\* main has returned 0 on an observation file that holds two candidates with
\* different fields, after making the results directory
C15_Witness ==
    /\ pc = "main" /\ Exited /\ main.result = "return 0"
    /\ DOMAIN fs.obs_file.vars = {"tos", "SST"}
    /\ fs.obs_file.vars["tos"] # fs.obs_file.vars["SST"]
    /\ fs.created /\ fs.figure

\* main has returned 1 from the correlation step
C15_WitnessCorrelationFailure ==
    /\ pc = "main" /\ Exited /\ main.result = "return 1"
    /\ main.steps = Prefix(4)

\* main has returned 1 from the plotting step, the figure not written
C15_WitnessPlotFailure ==
    /\ pc = "main" /\ Exited /\ main.result = "return 1"
    /\ main.steps = Prefix(6) /\ ~fs.figure

\* main has raised out of the directory step
C15_WitnessDirectoryFailure ==
    /\ pc = "main" /\ Exited /\ main.result = "raised"
    /\ main.steps = Prefix(5) /\ ~fs.figure
====
